---------------------------- MODULE Spec2Model ----------------------------
(***************************************************************************)
(* A model of MigrationDataProcessor                                       *)
(* (src/data/scripts/generate_migration_variations.py).                    *)
(*                                                                         *)
(* Tables (pandas DataFrames, JSON artifacts) are sequences of records.    *)
(* A text cell of a CSV file is a string; the missing text cell (pandas    *)
(* NaN, which read_csv produces for an empty cell) is the string NaN.      *)
(* A float column is a column of fractions [num, den]; the float NaN is    *)
(* 0/0 and an infinity is n/0 with n # 0.                                  *)
(* A migration_month text "YYYY-MM" is the pair <<YYYY, MM>>; a date is    *)
(* the number of months since year 0.                                      *)
(***************************************************************************)
EXTENDS Integers, Sequences, FiniteSets, TLC

VARIABLES
    m49,                      \* the classification table read from m49.csv
    country_to_region,        \* dict: ISO2 -> region code
    country_to_subregion,     \* dict: ISO2 -> sub-region code
    country_to_intermediate,  \* dict: ISO2 -> intermediate region code
    region_names,             \* dict: region code -> name
    subregion_names,          \* dict: sub-region code -> name
    intermediate_names,       \* dict: intermediate region code -> name
    df,                       \* the enriched record store (self.df)
    files,                    \* the artifacts of output_dir: name -> [exists, rows]
    returned                  \* the outcome of the latest call ("" before any): the path a
                              \* generate_* call returned; None or the exception raised
                              \* for generate_all_variations

vars == <<m49, country_to_region, country_to_subregion, country_to_intermediate,
          region_names, subregion_names, intermediate_names, df, files, returned>>

hierarchy == <<m49, country_to_region, country_to_subregion, country_to_intermediate,
               region_names, subregion_names, intermediate_names>>

-----------------------------------------------------------------------------
(* Values *)

NaN == "NaN"

isna(x) == x = NaN

\* floats as fractions
F(n) == [num |-> n, den |-> 1]
NaNf == [num |-> 0, den |-> 0]
isnaf(x) == x.den = 0 /\ x.num = 0
EqF(a, b) == /\ (a.den = 0) = (b.den = 0)
             /\ a.num * b.den = b.num * a.den

\* The strings of the model in code-point order (digits sort before letters);
\* pandas sorts group keys and merge keys in this order.  The codes of one column
\* are chosen so that their order as text is their order as numbers.
Collation ==
    << "2", "21", "5", "9",
       "AA", "BB", "CC", "DD", "EE", "FF", "Fall", "GG", "HH", "JJ", "KK",
       "Spring", "Summer", "Winter", "XX", "YY", "ZZ" >>

StrRank(s) == CHOOSE i \in 1..Len(Collation) : Collation[i] = s

Range(s) == { s[i] : i \in 1..Len(s) }

\* lexicographic order on tuples of the same length, by component ranks
RECURSIVE LexLess(_, _)
LexLess(a, b) ==
    IF a = <<>> THEN FALSE
    ELSE IF Head(a) # Head(b) THEN Head(a) < Head(b)
    ELSE LexLess(Tail(a), Tail(b))

\* The tables below are built once and then read many times: `f \o <<>>' (a sequence)
\* and `f @@ <<>>' (a function) are f itself, written so that it is computed once.

\* the elements of S as a sequence ascending by rank[x] (a tuple of integers, one
\* per element)
SortSet(S, rank) ==
    LET ranks == [x \in S |-> rank[x]] @@ <<>>
        before == [x \in S |-> Cardinality({ y \in S : LexLess(ranks[y], ranks[x]) })] @@ <<>>
    IN  [i \in 1..Cardinality(S) |-> CHOOSE x \in S : before[x] = i - 1] \o <<>>

\* the positions 1..n of a column of integer keys, stably sorted ascending by key
Argsort(n, keys) ==
    LET before == [i \in 1..n |->
                      Cardinality({ j \in 1..n : \/ keys[j] < keys[i]
                                                 \/ (keys[j] = keys[i] /\ j < i) })] \o <<>>
    IN  [k \in 1..n |-> CHOOSE i \in 1..n : before[i] = k - 1] \o <<>>

RECURSIVE SumSeq(_)
SumSeq(s) == IF s = <<>> THEN 0 ELSE Head(s) + SumSeq(Tail(s))

\* the column num_migrants of a table
Counts(rows) == [i \in 1..Len(rows) |-> rows[i].num_migrants]

\* Series.sum() / Series.mean() of num_migrants over a non-empty group
GroupSum(rows) == SumSeq(Counts(rows))
GroupMean(rows) == [num |-> SumSeq(Counts(rows)), den |-> Len(rows)]

\* dict[k] = v
Put(d, k, v) == [x \in DOMAIN d \cup {k} |-> IF x = k THEN v ELSE d[x]]
EmptyDict == [x \in {} |-> NaN]

\* Series.map(dict): a key the dict lacks maps to NaN
MapDict(d, k) == IF k \in DOMAIN d THEN d[k] ELSE NaN

-----------------------------------------------------------------------------
(* load_regional_mappings *)

\* one iteration of the loop over m49.iterrows()
MappingsStep(idx, row) ==
    IF isna(row.iso2) THEN idx
    ELSE [ country_to_region       |-> Put(idx.country_to_region, row.iso2, row.region_code),
           country_to_subregion    |-> Put(idx.country_to_subregion, row.iso2, row.subregion_code),
           country_to_intermediate |-> Put(idx.country_to_intermediate, row.iso2, row.intermediate_code),
           region_names            |-> IF ~isna(row.region_code)
                                       THEN Put(idx.region_names, row.region_code, row.region_name)
                                       ELSE idx.region_names,
           subregion_names         |-> IF ~isna(row.subregion_code)
                                       THEN Put(idx.subregion_names, row.subregion_code, row.subregion_name)
                                       ELSE idx.subregion_names,
           intermediate_names      |-> IF ~isna(row.intermediate_code)
                                       THEN Put(idx.intermediate_names, row.intermediate_code, row.intermediate_name)
                                       ELSE idx.intermediate_names ]

RECURSIVE load_regional_mappings(_)
load_regional_mappings(table) ==
    IF table = <<>>
    THEN [ country_to_region |-> EmptyDict, country_to_subregion |-> EmptyDict,
           country_to_intermediate |-> EmptyDict, region_names |-> EmptyDict,
           subregion_names |-> EmptyDict, intermediate_names |-> EmptyDict ]
    ELSE MappingsStep(load_regional_mappings(SubSeq(table, 1, Len(table) - 1)),
                      table[Len(table)])

-----------------------------------------------------------------------------
(* load_migration_data *)

\* pd.to_datetime("YYYY-MM"): the first day of the month, as months since year 0
to_datetime(text) == text[1] * 12 + (text[2] - 1)
dt_year(date) == date \div 12
dt_month(date) == (date % 12) + 1
dt_quarter(date) == ((dt_month(date) - 1) \div 3) + 1

season_map(month) ==
    IF month \in {12, 1, 2} THEN "Winter"
    ELSE IF month \in {3, 4, 5} THEN "Spring"
    ELSE IF month \in {6, 7, 8} THEN "Summer"
    ELSE "Fall"

Enrich(raw, idx) ==
    LET date == to_datetime(raw.migration_month) IN
    [ country_from      |-> raw.country_from,
      country_to        |-> raw.country_to,
      migration_month   |-> raw.migration_month,
      num_migrants      |-> raw.num_migrants,
      date              |-> date,
      year              |-> dt_year(date),
      month             |-> dt_month(date),
      quarter           |-> dt_quarter(date),
      region_from       |-> MapDict(idx.country_to_region, raw.country_from),
      region_to         |-> MapDict(idx.country_to_region, raw.country_to),
      subregion_from    |-> MapDict(idx.country_to_subregion, raw.country_from),
      subregion_to      |-> MapDict(idx.country_to_subregion, raw.country_to),
      intermediate_from |-> MapDict(idx.country_to_intermediate, raw.country_from),
      intermediate_to   |-> MapDict(idx.country_to_intermediate, raw.country_to),
      season            |-> season_map(dt_month(date)) ]

load_migration_data(rawRows, idx) ==
    [i \in 1..Len(rawRows) |-> Enrich(rawRows[i], idx)]

-----------------------------------------------------------------------------
(* The artifacts and the state after __init__ *)

FileNames ==
    { "flows_country_to_country_monthly.json",
      "flows_net_annual_country.json",
      "flows_corridor_rankings_annual.json",
      "flows_growth_rates_annual.json",
      "flows_seasonal_patterns_country.json",
      "flows_rolling_averages_top100.json",
      "flows_region_to_country_monthly.json",
      "flows_subregion_to_subregion_monthly.json",
      "flows_intermediate_to_intermediate_monthly.json",
      "flows_country_to_region_monthly.json",
      "flows_region_to_region_monthly.json",
      "flows_country_to_country_quarterly.json",
      "flows_country_to_country_annual.json",
      "flows_region_to_region_annual.json",
      "flows_gross_annual_country.json" }

NoFile == [exists |-> FALSE, rows |-> <<>>]

\* DataFrame.to_json(path): the artifact is created or overwritten
to_json(fs, name, rows) == [fs EXCEPT ![name] = [exists |-> TRUE, rows |-> rows]]

\* MigrationDataProcessor.__init__ on a classification table and a raw flow table, dir
\* being the artifacts that output_dir holds already (mkdir(exist_ok=True))
SetupIn(table, rawRows, dir) ==
    LET idx == load_regional_mappings(table) IN
    /\ m49 = table
    /\ country_to_region = idx.country_to_region
    /\ country_to_subregion = idx.country_to_subregion
    /\ country_to_intermediate = idx.country_to_intermediate
    /\ region_names = idx.region_names
    /\ subregion_names = idx.subregion_names
    /\ intermediate_names = idx.intermediate_names
    /\ df = load_migration_data(rawRows, idx)
    /\ files = dir
    /\ returned = ""

\* __init__ with a new output_dir
Setup(table, rawRows) == SetupIn(table, rawRows, [f \in FileNames |-> NoFile])

\* the raw flow tables of 1..n rows over the given corridors, months and counts
RawTables(corridors, months, counts, n) ==
    LET Row == { [country_from |-> c[1], country_to |-> c[2],
                  migration_month |-> m, num_migrants |-> k] :
                 c \in corridors, m \in months, k \in counts }
    IN  UNION { [1..len -> Row] : len \in 1..n }

\* the classification table of the worked example: CC lies in region 2, XX is unknown
M49Example ==
    << [ iso2 |-> "CC", region_code |-> "2", region_name |-> "Region2",
         subregion_code |-> "21", subregion_name |-> "Sub21",
         intermediate_code |-> NaN, intermediate_name |-> NaN ] >>

-----------------------------------------------------------------------------
(* generate_country_to_country *)

\* a variant that drops the records of countries the hierarchy does not know
CountryToCountryMapped(frame) ==
    LET kept == SelectSeq(frame, LAMBDA r : ~isna(r.region_from) /\ ~isna(r.region_to))
    IN  [i \in 1..Len(kept) |->
            [ country_from    |-> kept[i].country_from,
              country_to      |-> kept[i].country_to,
              migration_month |-> kept[i].migration_month,
              num_migrants    |-> kept[i].num_migrants ]]

\* self.df[['country_from', 'country_to', 'migration_month', 'num_migrants']]
CountryToCountry(frame) ==
    [i \in 1..Len(frame) |->
        [ country_from    |-> frame[i].country_from,
          country_to      |-> frame[i].country_to,
          migration_month |-> frame[i].migration_month,
          num_migrants    |-> frame[i].num_migrants ]]

generate_country_to_country ==
    /\ files' = to_json(files, "flows_country_to_country_monthly.json", CountryToCountry(df))
    /\ returned' = "flows_country_to_country_monthly.json"
    /\ UNCHANGED <<hierarchy, df>>

-----------------------------------------------------------------------------
(* generate_net_flows *)

\* the concatenation of a sequence of tables
RECURSIVE Flatten(_)
Flatten(ss) ==
    IF ss = <<>> THEN <<>>
    ELSE IF Len(ss) = 1 THEN ss[1]
    ELSE LET half == Len(ss) \div 2
         IN  Flatten(SubSeq(ss, 1, half)) \o Flatten(SubSeq(ss, half + 1, Len(ss)))

\* df.groupby(['country_from', 'country_to', 'year'])['num_migrants'].sum().reset_index()
\* (groupby drops a group whose key holds NaN and sorts the groups by key)
AnnualSums(frame) ==
    LET keys == { <<r.country_from, r.country_to, r.year>> : r \in
                    { x \in Range(frame) : ~isna(x.country_from) /\ ~isna(x.country_to) } }
        order == SortSet(keys, [k \in keys |-> <<StrRank(k[1]), StrRank(k[2]), k[3]>>])
    IN  [i \in 1..Len(order) |->
            [ country_from |-> order[i][1],
              country_to   |-> order[i][2],
              year         |-> order[i][3],
              num_migrants |-> GroupSum(SelectSeq(frame, LAMBDA r :
                                  <<r.country_from, r.country_to, r.year>> = order[i])) ]]

\* a variant without the rename: the inbound sums keep the outbound orientation
InboundSumsNoRename(frame) ==
    LET keys == { <<r.country_from, r.country_to, r.year>> : r \in Range(frame) }
        order == SortSet(keys, [k \in keys |-> <<StrRank(k[1]), StrRank(k[2]), k[3]>>])
    IN  [i \in 1..Len(order) |->
            [ country_from |-> order[i][1],
              country_to   |-> order[i][2],
              year         |-> order[i][3],
              num_migrants |-> GroupSum(SelectSeq(frame, LAMBDA r :
                                  <<r.country_from, r.country_to, r.year>> = order[i])) ]]

\* df.groupby(['country_to', 'country_from', 'year'])['num_migrants'].sum().reset_index()
\* followed by rename(country_to -> country_from, country_from -> country_to)
InboundSums(frame) ==
    LET keys == { <<r.country_to, r.country_from, r.year>> : r \in
                    { x \in Range(frame) : ~isna(x.country_from) /\ ~isna(x.country_to) } }
        order == SortSet(keys, [k \in keys |-> <<StrRank(k[1]), StrRank(k[2]), k[3]>>])
    IN  [i \in 1..Len(order) |->
            [ country_from |-> order[i][1],
              country_to   |-> order[i][2],
              year         |-> order[i][3],
              num_migrants |-> GroupSum(SelectSeq(frame, LAMBDA r :
                                  <<r.country_to, r.country_from, r.year>> = order[i])) ]]

MergeKey(r) == <<r.country_from, r.country_to, r.year>>

\* a variant: how='left', which keeps the outbound keys only
MergeLeft(left, right) ==
    LET Row(l, in) == [ country_from |-> l.country_from, country_to |-> l.country_to,
                        year |-> l.year,
                        num_migrants_out |-> F(l.num_migrants), num_migrants_in |-> in ]
        Of(l) ==
            LET R == SelectSeq(right, LAMBDA r : MergeKey(r) = MergeKey(l))
            IN  IF R = <<>> THEN << Row(l, NaNf) >>
                ELSE [j \in 1..Len(R) |-> Row(l, F(R[j].num_migrants))]
    IN  Flatten([i \in 1..Len(left) |-> Of(left[i])])

\* outbound.merge(inbound, on=[country_from, country_to, year], how='outer',
\*                suffixes=('_out', '_in')): one row per pair of matching rows, a row
\* with NaN on the missing side for an unmatched row, keys in sorted order.
\* The two count columns are floats after the merge.
MergeOuter(left, right) ==
    LET keys == { MergeKey(r) : r \in Range(left) \cup Range(right) }
        order == SortSet(keys, [k \in keys |-> <<StrRank(k[1]), StrRank(k[2]), k[3]>>])
        Row(k, out, in) == [ country_from |-> k[1], country_to |-> k[2], year |-> k[3],
                             num_migrants_out |-> out, num_migrants_in |-> in ]
        Of(k) ==
            LET L == SelectSeq(left, LAMBDA r : MergeKey(r) = k)
                R == SelectSeq(right, LAMBDA r : MergeKey(r) = k)
            IN  IF R = <<>> THEN [j \in 1..Len(L) |-> Row(k, F(L[j].num_migrants), NaNf)]
                ELSE IF L = <<>> THEN [j \in 1..Len(R) |-> Row(k, NaNf, F(R[j].num_migrants))]
                ELSE [n \in 1..(Len(L) * Len(R)) |->
                        Row(k, F(L[((n - 1) \div Len(R)) + 1].num_migrants),
                               F(R[((n - 1) % Len(R)) + 1].num_migrants))]
    IN  Flatten([i \in 1..Len(order) |-> Of(order[i])])

fillna0(x) == IF isnaf(x) THEN F(0) ELSE x

AddF(a, b) == [num |-> a.num * b.den + b.num * a.den, den |-> a.den * b.den]
SubF(a, b) == [num |-> a.num * b.den - b.num * a.den, den |-> a.den * b.den]

\* a variant with the difference taken the other way round
NetFlowOutMinusIn(in, out) == SubF(out, in)

\* net_flow = num_migrants_in - num_migrants_out
NetFlow(in, out) == SubF(in, out)

\* gross_flow = num_migrants_in + num_migrants_out
GrossFlow(in, out) == AddF(in, out)

NetFlows(frame) ==
    LET outbound == AnnualSums(frame)
        inbound == InboundSums(frame)
        net_flows == MergeOuter(outbound, inbound)
    IN  [i \in 1..Len(net_flows) |->
            LET out == fillna0(net_flows[i].num_migrants_out)
                in == fillna0(net_flows[i].num_migrants_in)
            IN  [ country_from |-> net_flows[i].country_from,
                  country_to   |-> net_flows[i].country_to,
                  year         |-> net_flows[i].year,
                  net_flow     |-> NetFlow(in, out),
                  gross_flow   |-> GrossFlow(in, out) ]]

generate_net_flows ==
    /\ files' = to_json(files, "flows_net_annual_country.json", NetFlows(df))
    /\ returned' = "flows_net_annual_country.json"
    /\ UNCHANGED <<hierarchy, df>>

-----------------------------------------------------------------------------
(* The net-flow specification: the worked example's countries, two years *)

MaxNetRecords == 3

NetCorridors == { <<"CC", "XX">>, <<"XX", "CC">>, <<"CC", "CC">> }
NetMonths == { <<2020, 1>>, <<2020, 2>>, <<2021, 1>> }
NetCounts == { 40, 100 }

InitNet ==
    \E raw \in RawTables(NetCorridors, NetMonths, NetCounts, MaxNetRecords) :
        Setup(M49Example, raw)

NextNet == generate_net_flows \/ generate_country_to_country

SpecNet == InitNet /\ [][NextNet]_vars

-----------------------------------------------------------------------------
(* Properties of the net flows and of the country-to-country projection *)

\* the sum of the counts of the records o -> d whose month lies in year y (0 if none)
RECURSIVE SumAt(_, _)
SumAt(frame, I) ==
    IF I = {} THEN 0
    ELSE LET i == CHOOSE j \in I : TRUE
         IN  frame[i].num_migrants + SumAt(frame, I \ {i})

RecordsOf(frame, o, d, y) ==
    { i \in 1..Len(frame) : /\ frame[i].country_from = o
                            /\ frame[i].country_to = d
                            /\ frame[i].migration_month[1] = y }

Moved(frame, o, d, y) == SumAt(frame, RecordsOf(frame, o, d, y))

NetFile == files["flows_net_annual_country.json"]

\* C1: every row (o, d, y) of the net-flow artifact has net_flow = inbound - outbound
\* and gross_flow = inbound + outbound, where outbound is the sum of the records
\* o -> d of year y and inbound the sum of the records d -> o of year y.
C1_NetAndGross ==
    NetFile.exists =>
        \A i \in 1..Len(NetFile.rows) :
            LET r == NetFile.rows[i]
                outbound == Moved(df, r.country_from, r.country_to, r.year)
                inbound == Moved(df, r.country_to, r.country_from, r.year)
            IN  /\ EqF(r.net_flow, F(inbound - outbound))
                /\ EqF(r.gross_flow, F(inbound + outbound))

\* a row with flow in both directions and unequal sums, and a row with one side absent
C1_Witness ==
    /\ NetFile.exists
    /\ \E i, j \in 1..Len(NetFile.rows) :
          LET r == NetFile.rows[i]
              q == NetFile.rows[j]
          IN  /\ Moved(df, r.country_from, r.country_to, r.year) > 0
              /\ Moved(df, r.country_to, r.country_from, r.year) > 0
              /\ r.net_flow.num # 0
              /\ RecordsOf(df, q.country_to, q.country_from, q.year) = {}

ExampleFlows ==
    << [country_from |-> "CC", country_to |-> "XX", migration_month |-> <<2020, 1>>,
        num_migrants |-> 100],
       [country_from |-> "XX", country_to |-> "CC", migration_month |-> <<2020, 1>>,
        num_migrants |-> 40] >>

NetRowsOf(o, d, y) ==
    { i \in 1..Len(NetFile.rows) : /\ NetFile.rows[i].country_from = o
                                   /\ NetFile.rows[i].country_to = d
                                   /\ NetFile.rows[i].year = y }

\* C2 as stated: with the records (CC,XX,2020-01,100) and (XX,CC,2020-01,40), the row
\* of year 2020 for origin CC and destination XX has net_flow 60 and gross_flow 140.
C2_ExampleAsStated ==
    (NetFile.exists /\ CountryToCountry(df) = ExampleFlows) =>
        \E i \in NetRowsOf("CC", "XX", 2020) :
            /\ EqF(NetFile.rows[i].net_flow, F(60))
            /\ EqF(NetFile.rows[i].gross_flow, F(140))

\* C2 amended: with those records the row of year 2020 for origin CC and destination XX
\* has net_flow -60 (inbound 40 minus outbound 100) and gross_flow 140; the row for
\* origin XX and destination CC has net_flow 60.
C2_ExampleAmended ==
    (NetFile.exists /\ CountryToCountry(df) = ExampleFlows) =>
        /\ \E i \in NetRowsOf("CC", "XX", 2020) :
              /\ EqF(NetFile.rows[i].net_flow, F(0 - 60))
              /\ EqF(NetFile.rows[i].gross_flow, F(140))
        /\ \E i \in NetRowsOf("XX", "CC", 2020) :
              /\ EqF(NetFile.rows[i].net_flow, F(60))
              /\ EqF(NetFile.rows[i].gross_flow, F(140))

C2_Witness ==
    /\ NetFile.exists
    /\ CountryToCountry(df) = ExampleFlows
    /\ Len(NetFile.rows) = 2

\* C3: the net-flow artifact holds exactly one row for every (o, d, y) with a record
\* o -> d or d -> o in year y, and no row for any other triple.
C3_OneRowPerPairYear ==
    NetFile.exists =>
        LET triples == { MergeKey(NetFile.rows[i]) : i \in 1..Len(NetFile.rows) }
                       \cup { <<df[i].country_from, df[i].country_to, df[i].migration_month[1]>> :
                              i \in 1..Len(df) }
                       \cup { <<df[i].country_to, df[i].country_from, df[i].migration_month[1]>> :
                              i \in 1..Len(df) }
        IN  \A t \in triples :
                Cardinality(NetRowsOf(t[1], t[2], t[3])) =
                    IF \/ RecordsOf(df, t[1], t[2], t[3]) # {}
                       \/ RecordsOf(df, t[2], t[1], t[3]) # {}
                    THEN 1 ELSE 0

\* a row for a pair that has records in the reverse direction only
C3_Witness ==
    /\ NetFile.exists
    /\ \E i \in 1..Len(NetFile.rows) :
          LET r == NetFile.rows[i]
          IN  /\ RecordsOf(df, r.country_from, r.country_to, r.year) = {}
              /\ RecordsOf(df, r.country_to, r.country_from, r.year) # {}
              /\ r.country_from # r.country_to

CountryFile == files["flows_country_to_country_monthly.json"]

\* C4: the country-to-country artifact has exactly one row per record of the store, in
\* the store's order, each row carrying its record's own count (nothing is summed,
\* nothing is dropped).
C4_OneRowPerRecord ==
    CountryFile.exists =>
        /\ Len(CountryFile.rows) = Len(df)
        /\ \A i \in 1..Len(df) :
              /\ CountryFile.rows[i].country_from = df[i].country_from
              /\ CountryFile.rows[i].country_to = df[i].country_to
              /\ CountryFile.rows[i].migration_month = df[i].migration_month
              /\ CountryFile.rows[i].num_migrants = df[i].num_migrants

\* two records of the same (origin, destination, month), the origin unknown to the hierarchy
C4_Witness ==
    /\ CountryFile.exists
    /\ \E i, j \in 1..Len(df) :
          /\ i # j
          /\ df[i].country_from = df[j].country_from
          /\ df[i].country_to = df[j].country_to
          /\ df[i].migration_month = df[j].migration_month
          /\ isna(df[i].region_from)
          /\ Len(CountryFile.rows) = Len(df)

-----------------------------------------------------------------------------
(* generate_corridor_rankings *)

\* Series.unique(): the distinct values in order of first appearance
RECURSIVE Unique(_)
Unique(s) ==
    IF s = <<>> THEN <<>>
    ELSE LET u == Unique(SubSeq(s, 1, Len(s) - 1))
         IN  IF s[Len(s)] \in Range(u) THEN u ELSE Append(u, s[Len(s)])

\* a variant: rank(method='min', ascending=False), which leaves gaps after ties
MinRankDescending(values, v) ==
    Cardinality({ i \in 1..Len(values) : values[i] > v }) + 1

\* Series.rank(method='dense', ascending=False) of the value v within the column
DenseRankDescending(values, v) ==
    Cardinality({ values[i] : i \in { j \in 1..Len(values) : values[j] > v } }) + 1

\* Series.rank(pct=True) * 100: the average ascending rank over the column's length
PercentileRank(values, v) ==
    LET less == Cardinality({ i \in 1..Len(values) : values[i] < v })
        equal == Cardinality({ i \in 1..Len(values) : values[i] = v })
    IN  [num |-> (2 * less + equal + 1) * 100, den |-> 2 * Len(values)]

CorridorRankings(frame) ==
    LET annual_totals == AnnualSums(frame)
        years == Unique([i \in 1..Len(annual_totals) |-> annual_totals[i].year])
        Ranked(year) ==
            LET year_data == SelectSeq(annual_totals, LAMBDA r : r.year = year)
                totals == Counts(year_data)
            IN  [i \in 1..Len(year_data) |->
                    [ country_from |-> year_data[i].country_from,
                      country_to   |-> year_data[i].country_to,
                      year         |-> year_data[i].year,
                      num_migrants |-> year_data[i].num_migrants,
                      rank         |-> DenseRankDescending(totals, totals[i]),
                      percentile   |-> PercentileRank(totals, totals[i]) ]]
    IN  Flatten([i \in 1..Len(years) |-> Ranked(years[i])])

generate_corridor_rankings ==
    /\ files' = to_json(files, "flows_corridor_rankings_annual.json", CorridorRankings(df))
    /\ returned' = "flows_corridor_rankings_annual.json"
    /\ UNCHANGED <<hierarchy, df>>

-----------------------------------------------------------------------------
(* generate_growth_rates *)

MulF(a, b) == [num |-> a.num * b.num, den |-> a.den * b.den]
DivF(a, b) == [num |-> a.num * b.den, den |-> a.den * b.num]

\* Series.replace(0, np.nan)
replace0(x) == IF x.den # 0 /\ x.num = 0 THEN NaNf ELSE x

\* groupby(['country_from', 'country_to'])[column].shift(1): the value of the previous
\* row of the same corridor, NaN on the corridor's first row
ShiftInCorridor(rows, column, i) ==
    LET before == { j \in 1..(i - 1) : /\ rows[j].country_from = rows[i].country_from
                                       /\ rows[j].country_to = rows[i].country_to }
    IN  IF before = {} THEN NaNf
        ELSE column[CHOOSE j \in before : \A k \in before : k <= j]

\* ((num_migrants - prev_year_flow) / prev_year_flow.replace(0, np.nan)) * 100
GrowthRate(current, prev_year_flow) ==
    MulF(DivF(SubF(current, prev_year_flow), replace0(prev_year_flow)), F(100))

GrowthRates(frame) ==
    LET annual_flows == AnnualSums(frame)   \* sort_values keeps the groupby order
        n == Len(annual_flows)
        flow == [i \in 1..n |-> F(annual_flows[i].num_migrants)]
        prev_year_flow == [i \in 1..n |-> ShiftInCorridor(annual_flows, flow, i)]
        growth_rate == [i \in 1..n |-> GrowthRate(flow[i], prev_year_flow[i])]
        prev_growth_rate == [i \in 1..n |-> ShiftInCorridor(annual_flows, growth_rate, i)]
        result == [i \in 1..n |->
                    [ country_from    |-> annual_flows[i].country_from,
                      country_to      |-> annual_flows[i].country_to,
                      year            |-> annual_flows[i].year,
                      num_migrants    |-> annual_flows[i].num_migrants,
                      growth_rate     |-> growth_rate[i],
                      growth_velocity |-> SubF(growth_rate[i], prev_growth_rate[i]) ]]
    IN  SelectSeq(result, LAMBDA r : ~isnaf(r.growth_rate))   \* dropna(subset=['growth_rate'])

generate_growth_rates ==
    /\ files' = to_json(files, "flows_growth_rates_annual.json", GrowthRates(df))
    /\ returned' = "flows_growth_rates_annual.json"
    /\ UNCHANGED <<hierarchy, df>>

-----------------------------------------------------------------------------
(* The ranking specification: three corridors, two years, totals that tie *)

MaxRankRecords == 4

RankCorridors == { <<"CC", "XX">>, <<"XX", "CC">>, <<"CC", "YY">> }
RankMonths == { <<2020, 1>>, <<2021, 1>> }
RankCounts == { 10, 20 }

InitRank ==
    \E raw \in RawTables(RankCorridors, RankMonths, RankCounts, MaxRankRecords) :
        Setup(M49Example, raw)

NextRank == generate_corridor_rankings

SpecRank == InitRank /\ [][NextRank]_vars

RankFile == files["flows_corridor_rankings_annual.json"]

RankRowsOf(y) == { i \in 1..Len(RankFile.rows) : RankFile.rows[i].year = y }

\* C5: within each year the ranks are dense and descending by annual total: the ranks
\* used are exactly 1..k for k distinct totals, equal totals have equal ranks, and a
\* larger total has a smaller rank (so the largest has rank 1 and the next distinct
\* lower total is exactly one below the tied rank).
C5_DenseRankPerYear ==
    RankFile.exists =>
        \A y \in { RankFile.rows[i].year : i \in 1..Len(RankFile.rows) } :
            LET I == RankRowsOf(y)
                Total(i) == Moved(df, RankFile.rows[i].country_from,
                                  RankFile.rows[i].country_to, y)
            IN  /\ { RankFile.rows[i].rank : i \in I } = 1..Cardinality({ Total(i) : i \in I })
                /\ \A i, j \in I :
                      /\ Total(i) = Total(j) => RankFile.rows[i].rank = RankFile.rows[j].rank
                      /\ Total(i) > Total(j) => RankFile.rows[i].rank < RankFile.rows[j].rank

\* a year with two corridors tied on the largest total and a third below them, and
\* another year ranked on its own
C5_Witness ==
    /\ RankFile.exists
    /\ \E i, j, k, l \in 1..Len(RankFile.rows) :
          LET r == RankFile.rows IN
          /\ i # j
          /\ r[i].year = r[j].year /\ r[j].year = r[k].year
          /\ r[i].num_migrants = r[j].num_migrants
          /\ r[k].num_migrants < r[i].num_migrants
          /\ r[i].rank = 1 /\ r[j].rank = 1 /\ r[k].rank = 2
          /\ r[l].year # r[i].year /\ r[l].rank = 1

-----------------------------------------------------------------------------
(* The growth specification: two corridors, three years, a zero count *)

MaxGrowthRecords == 3

GrowthCorridors == { <<"CC", "XX">>, <<"XX", "CC">> }
GrowthMonths == { <<2019, 6>>, <<2020, 6>>, <<2021, 6>> }
GrowthCounts == { 0, 50, 100 }

InitGrowth ==
    \E raw \in RawTables(GrowthCorridors, GrowthMonths, GrowthCounts, MaxGrowthRecords) :
        Setup(M49Example, raw)

NextGrowth == generate_growth_rates

SpecGrowth == InitGrowth /\ [][NextGrowth]_vars

GrowthFile == files["flows_growth_rates_annual.json"]

\* C6 as stated: every emitted row of year y has growth_rate = (current - previous) /
\* previous * 100 with previous the corridor's total of the prior year y - 1; no row is
\* emitted when the corridor has no record in the prior year or its total there is 0.
C6_GrowthAgainstPriorYear ==
    GrowthFile.exists =>
        \A i \in 1..Len(GrowthFile.rows) :
            LET r == GrowthFile.rows[i]
                current == Moved(df, r.country_from, r.country_to, r.year)
                previous == Moved(df, r.country_from, r.country_to, r.year - 1)
            IN  /\ RecordsOf(df, r.country_from, r.country_to, r.year - 1) # {}
                /\ previous # 0
                /\ r.growth_rate.den # 0
                /\ r.growth_rate.num * previous = (current - previous) * 100 * r.growth_rate.den

\* What the code computes: growth against the corridor's latest earlier year that has
\* records, whichever year that is; rows are emitted exactly when that year exists and
\* its total is not 0.
GrowthAgainstPreviousRow ==
    GrowthFile.exists =>
        LET Earlier(o, d, y) == { df[i].migration_month[1] : i \in
                                    { j \in 1..Len(df) : /\ df[j].country_from = o
                                                         /\ df[j].country_to = d
                                                         /\ df[j].migration_month[1] < y } }
            Last(Y) == CHOOSE y \in Y : \A z \in Y : z <= y
        IN  /\ \A i \in 1..Len(GrowthFile.rows) :
                  LET r == GrowthFile.rows[i]
                      E == Earlier(r.country_from, r.country_to, r.year)
                      current == Moved(df, r.country_from, r.country_to, r.year)
                  IN  /\ E # {}
                      /\ LET previous == Moved(df, r.country_from, r.country_to, Last(E))
                         IN  /\ previous # 0
                             /\ r.growth_rate.den # 0
                             /\ r.growth_rate.num * previous =
                                    (current - previous) * 100 * r.growth_rate.den
            /\ \A j \in 1..Len(df) :
                  LET o == df[j].country_from
                      d == df[j].country_to
                      y == df[j].migration_month[1]
                      E == Earlier(o, d, y)
                  IN  (E # {} /\ Moved(df, o, d, Last(E)) # 0) =
                      (\E i \in 1..Len(GrowthFile.rows) :
                          /\ GrowthFile.rows[i].country_from = o
                          /\ GrowthFile.rows[i].country_to = d
                          /\ GrowthFile.rows[i].year = y)

-----------------------------------------------------------------------------
(* generate_seasonal_patterns *)

\* df.groupby(['country_from', 'country_to', 'season'])['num_migrants'].mean().reset_index()
SeasonalMeans(frame) ==
    LET keys == { <<r.country_from, r.country_to, r.season>> : r \in
                    { x \in Range(frame) : ~isna(x.country_from) /\ ~isna(x.country_to) } }
        order == SortSet(keys, [k \in keys |-> <<StrRank(k[1]), StrRank(k[2]), StrRank(k[3])>>])
    IN  [i \in 1..Len(order) |->
            [ country_from |-> order[i][1],
              country_to   |-> order[i][2],
              season       |-> order[i][3],
              num_migrants |-> GroupMean(SelectSeq(frame, LAMBDA r :
                                  <<r.country_from, r.country_to, r.season>> = order[i])) ]]

\* seasonal.pivot(index=['country_from', 'country_to'], columns='season',
\*                values='num_migrants').reset_index(): one row per index pair, one
\* column per value of the season column, NaN where the pair has no such row
Pivot(seasonal) ==
    LET index == { <<r.country_from, r.country_to>> : r \in Range(seasonal) }
        order == SortSet(index, [k \in index |-> <<StrRank(k[1]), StrRank(k[2])>>])
        columns == { r.season : r \in Range(seasonal) }
        Cell(k, c) ==
            LET at == { i \in 1..Len(seasonal) : /\ seasonal[i].country_from = k[1]
                                                 /\ seasonal[i].country_to = k[2]
                                                 /\ seasonal[i].season = c }
            IN  IF at = {} THEN NaNf ELSE seasonal[CHOOSE i \in at : TRUE].num_migrants
    IN  [i \in 1..Len(order) |->
            [c \in {"country_from", "country_to"} \cup columns |->
                IF c = "country_from" THEN order[i][1]
                ELSE IF c = "country_to" THEN order[i][2]
                ELSE Cell(order[i], c)]]

\* seasonal_pivot.fillna(0)
FillSeasons(pivot) ==
    [i \in 1..Len(pivot) |->
        [c \in DOMAIN pivot[i] |->
            IF c \in {"country_from", "country_to"} THEN pivot[i][c] ELSE fillna0(pivot[i][c])]]

SeasonalPatterns(frame) == FillSeasons(Pivot(SeasonalMeans(frame)))

generate_seasonal_patterns ==
    /\ files' = to_json(files, "flows_seasonal_patterns_country.json", SeasonalPatterns(df))
    /\ returned' = "flows_seasonal_patterns_country.json"
    /\ UNCHANGED <<hierarchy, df>>

-----------------------------------------------------------------------------
(* The seasonal specification: two corridors, months of all four seasons *)

MaxSeasonRecords == 4

SeasonCorridors == { <<"CC", "XX">>, <<"XX", "CC">> }
SeasonMonths == { <<2019, 12>>, <<2020, 1>>, <<2020, 4>>, <<2020, 7>>, <<2020, 10>> }
SeasonCounts == { 10, 30 }

InitSeason ==
    \E raw \in RawTables(SeasonCorridors, SeasonMonths, SeasonCounts, MaxSeasonRecords) :
        Setup(M49Example, raw)

NextSeason == generate_seasonal_patterns

SpecSeason == InitSeason /\ [][NextSeason]_vars

SeasonFile == files["flows_seasonal_patterns_country.json"]

Seasons == {"Winter", "Spring", "Summer", "Fall"}

\* the season of a month number, stated as the ranges of the calendar
SeasonOf(m) ==
    IF m = 12 \/ m <= 2 THEN "Winter"
    ELSE IF m <= 5 THEN "Spring"
    ELSE IF m <= 8 THEN "Summer"
    ELSE "Fall"

SeasonRecords(o, d, s) ==
    { i \in 1..Len(df) : /\ df[i].country_from = o
                         /\ df[i].country_to = d
                         /\ SeasonOf(df[i].migration_month[2]) = s }

SeasonRowsOf(o, d) ==
    { i \in 1..Len(SeasonFile.rows) : /\ SeasonFile.rows[i]["country_from"] = o
                                      /\ SeasonFile.rows[i]["country_to"] = d }

\* the cell of season s is the mean of the pair's records of that season, 0 if none
SeasonCellRight(row, s) ==
    LET I == SeasonRecords(row["country_from"], row["country_to"], s)
    IN  IF I = {} THEN EqF(row[s], F(0))
        ELSE row[s].den # 0 /\ row[s].num * Cardinality(I) = SumAt(df, I) * row[s].den

\* C9 as stated: the seasonal artifact holds exactly one row per (origin, destination)
\* pair with a record, and every row has the four columns Winter, Spring, Summer and
\* Fall, each the mean of the pair's records of that season, or 0 without any.
C9_FourSeasonColumns ==
    SeasonFile.exists =>
        /\ \A j \in 1..Len(df) :
              Cardinality(SeasonRowsOf(df[j].country_from, df[j].country_to)) = 1
        /\ \A i \in 1..Len(SeasonFile.rows) :
              LET row == SeasonFile.rows[i]
              IN  /\ \E j \in 1..Len(df) : /\ df[j].country_from = row["country_from"]
                                           /\ df[j].country_to = row["country_to"]
                  /\ Seasons \subseteq DOMAIN row
                  /\ \A s \in Seasons : SeasonCellRight(row, s)

\* What the code produces: the rows are as C9 says, but the season columns are those
\* seasons that occur in some record of the store, and no others.
SeasonColumnsAreSeasonsPresent ==
    SeasonFile.exists =>
        /\ \A j \in 1..Len(df) :
              Cardinality(SeasonRowsOf(df[j].country_from, df[j].country_to)) = 1
        /\ \A i \in 1..Len(SeasonFile.rows) :
              LET row == SeasonFile.rows[i]
                  present == { SeasonOf(df[j].migration_month[2]) : j \in 1..Len(df) }
              IN  /\ \E j \in 1..Len(df) : /\ df[j].country_from = row["country_from"]
                                           /\ df[j].country_to = row["country_to"]
                  /\ DOMAIN row = {"country_from", "country_to"} \cup present
                  /\ \A s \in present : SeasonCellRight(row, s)

-----------------------------------------------------------------------------
(* generate_rolling_averages *)

TopCorridors == 100       \* nlargest(100)
MinObservations == 6      \* len(corridor_df) >= 6
ShortWindow == 3          \* rolling(3)
LongWindow == 6           \* rolling(6)
TrendWindow == 12         \* len(corridor_df) >= 12, tail(12)

\* df.groupby(['country_from', 'country_to'])['num_migrants'].sum()
CorridorSums(frame) ==
    LET keys == { <<r.country_from, r.country_to>> : r \in
                    { x \in Range(frame) : ~isna(x.country_from) /\ ~isna(x.country_to) } }
        order == SortSet(keys, [k \in keys |-> <<StrRank(k[1]), StrRank(k[2])>>])
    IN  [i \in 1..Len(order) |->
            [ country_from |-> order[i][1],
              country_to   |-> order[i][2],
              num_migrants |-> GroupSum(SelectSeq(frame, LAMBDA r :
                                  <<r.country_from, r.country_to>> = order[i])) ]]

\* Series.nlargest(n) (keep='first'): the n largest values in descending order, equal
\* values in the order of the series
nlargest(series, n) ==
    LET p == Argsort(Len(series), [i \in 1..Len(series) |-> 0 - series[i].num_migrants])
        m == IF n < Len(series) THEN n ELSE Len(series)
    IN  [i \in 1..m |-> series[p[i]]]

\* DataFrame.sort_values('date')
sort_values_date(rows) ==
    LET p == Argsort(Len(rows), [i \in 1..Len(rows) |-> rows[i].date])
    IN  [i \in 1..Len(rows) |-> rows[p[i]]]

\* a variant: rolling(window, min_periods=1), the mean of the points seen so far
RollingMeanFromStart(values, window, i) ==
    LET from == IF i < window THEN 1 ELSE i - window + 1
    IN  [num |-> SumSeq(SubSeq(values, from, i)), den |-> i - from + 1]

\* Series.rolling(window).mean() at the (1-based) position i: NaN until the window is full
RollingMean(values, window, i) ==
    IF i < window THEN NaNf
    ELSE [num |-> SumSeq(SubSeq(values, i - window + 1, i)), den |-> window]

\* np.polyfit(np.arange(len(y)), y, 1)[0]: the least-squares slope
polyfit_slope(y) ==
    LET n == Len(y)
        sx == SumSeq([i \in 1..n |-> i - 1])
        sxx == SumSeq([i \in 1..n |-> (i - 1) * (i - 1)])
        sy == SumSeq(y)
        sxy == SumSeq([i \in 1..n |-> (i - 1) * y[i]])
    IN  [num |-> n * sxy - sx * sy, den |-> n * sxx - sx * sx]

\* DataFrame.tail(n)
tail(s, n) == IF Len(s) <= n THEN s ELSE SubSeq(s, Len(s) - n + 1, Len(s))

\* a variant that asks for more than six months
MoreThanMinObservations(n) == n > MinObservations

\* len(corridor_df) >= 6
HasMinObservations(n) == n >= MinObservations

\* the body of the loop over top_corridors: the rows one corridor contributes
CorridorRolling(frame, from_country, to_country) ==
    LET corridor_df == sort_values_date(SelectSeq(frame, LAMBDA r :
                            r.country_from = from_country /\ r.country_to = to_country))
        values == Counts(corridor_df)
        trend_slope == IF Len(corridor_df) >= TrendWindow
                       THEN polyfit_slope(tail(values, TrendWindow))
                       ELSE NaNf
    IN  IF HasMinObservations(Len(corridor_df))
        THEN [i \in 1..Len(corridor_df) |->
                [ country_from    |-> corridor_df[i].country_from,
                  country_to      |-> corridor_df[i].country_to,
                  migration_month |-> corridor_df[i].migration_month,
                  num_migrants    |-> corridor_df[i].num_migrants,
                  rolling_3m      |-> RollingMean(values, ShortWindow, i),
                  rolling_6m      |-> RollingMean(values, LongWindow, i),
                  trend_slope     |-> trend_slope ]]
        ELSE <<>>

\* pd.concat(corridor_data) over the top corridors, in their order
RollingAverages(frame) ==
    LET top_corridors == nlargest(CorridorSums(frame), TopCorridors)
    IN  Flatten([i \in 1..Len(top_corridors) |->
                    CorridorRolling(frame, top_corridors[i].country_from,
                                    top_corridors[i].country_to)])

\* a variant whose corridor frames are views of the store: once some corridor
\* contributes, the store has the column trend_slope
generate_rolling_averages_in_place ==
    /\ files' = IF RollingAverages(df) # <<>>
                THEN to_json(files, "flows_rolling_averages_top100.json", RollingAverages(df))
                ELSE files
    /\ returned' = "flows_rolling_averages_top100.json"
    /\ df' = IF RollingAverages(df) # <<>>
             THEN [i \in 1..Len(df) |->
                     LET rows == CorridorRolling(df, df[i].country_from, df[i].country_to)
                     IN  df[i] @@ [trend_slope |-> IF rows # <<>> THEN rows[1].trend_slope
                                                                 ELSE NaNf]]
             ELSE df
    /\ UNCHANGED hierarchy

\* the artifact is written only if some corridor contributed (if corridor_data:)
generate_rolling_averages ==
    /\ files' = IF RollingAverages(df) # <<>>
                THEN to_json(files, "flows_rolling_averages_top100.json", RollingAverages(df))
                ELSE files
    /\ returned' = "flows_rolling_averages_top100.json"
    /\ UNCHANGED <<hierarchy, df>>

-----------------------------------------------------------------------------
(* The rolling-average specification: a hundred single-record corridors of equal     *)
(* total, and up to two corridors observed over a varying number of months           *)

MaxObservations == 13

Hubs == {"AA", "BB", "DD", "EE", "FF", "GG", "HH", "JJ", "KK", "YY"}

\* 90 + 10 corridors, none of them from CC or from ZZ
BackgroundCorridors ==
    { c \in Hubs \X Hubs : c[1] # c[2] } \cup { <<a, "ZZ">> : a \in Hubs }

\* one record of 60 migrants per background corridor
BackgroundRows ==
    LET order == SortSet(BackgroundCorridors,
                         [k \in BackgroundCorridors |-> <<StrRank(k[1]), StrRank(k[2])>>])
    IN  [i \in 1..Len(order) |->
            [ country_from |-> order[i][1], country_to |-> order[i][2],
              migration_month |-> <<2020, 1>>, num_migrants |-> 60 ]]

\* n consecutive months from 2020-01 of one corridor, the count of the i-th month being
\* base + step * (i * i mod 5), the rows in chronological or in reverse order
ObservedRows(corridor, n, base, step, reversed) ==
    LET Row(i) == [ country_from |-> corridor[1], country_to |-> corridor[2],
                    migration_month |-> <<2020 + ((i - 1) \div 12), ((i - 1) % 12) + 1>>,
                    num_migrants |-> base + step * ((i * i) % 5) ]
    IN  [i \in 1..n |-> IF reversed THEN Row(n + 1 - i) ELSE Row(i)]

InitRolling ==
    \E n \in 1..MaxObservations, base \in {5, 10}, step \in {0, 1}, reversed \in BOOLEAN,
       n2 \in {0, MinObservations, TrendWindow} :
        Setup(M49Example,
              BackgroundRows
                \o ObservedRows(<<"CC", "XX">>, n, base, step, reversed)
                \o ObservedRows(<<"ZZ", "CC">>, n2, 10, 0, FALSE))

NextRolling == generate_rolling_averages

SpecRolling == InitRolling /\ [][NextRolling]_vars

RollingFile == files["flows_rolling_averages_top100.json"]

CorridorsOf(rows) == { <<rows[i].country_from, rows[i].country_to>> : i \in 1..Len(rows) }

RowsOfCorridor(rows, c) ==
    SelectSeq(rows, LAMBDA r : r.country_from = c[1] /\ r.country_to = c[2])

\* the months of a "YYYY-MM" text, counted from year 0
MonthNumber(text) == text[1] * 12 + text[2]

\* C7: for every corridor of the rolling-average artifact, its rows are the corridor's
\* records in chronological order, and at the 0-based position i the 3-month average
\* is defined iff i >= 2 and is then the mean of the counts at i-2..i, the 6-month
\* average is defined iff i >= 5 and is then the mean of the counts at i-5..i.
C7_RollingWindows ==
    RollingFile.exists =>
        \A c \in CorridorsOf(RollingFile.rows) :
            LET R == RowsOfCorridor(RollingFile.rows, c)
                v == Counts(R) \o <<>>
            IN  /\ Len(R) = Len(RowsOfCorridor(df, c))
                /\ \A k \in 1..Len(R) :
                      \E j \in 1..Len(df) : /\ df[j].country_from = c[1]
                                            /\ df[j].country_to = c[2]
                                            /\ df[j].migration_month = R[k].migration_month
                                            /\ df[j].num_migrants = R[k].num_migrants
                /\ \A k \in 1..(Len(R) - 1) :
                      MonthNumber(R[k].migration_month) < MonthNumber(R[k + 1].migration_month)
                /\ \A k \in 1..Len(R) :
                      LET i == k - 1 IN
                      /\ (R[k].rolling_3m.den # 0) = (i >= 2)
                      /\ i < 2 => isnaf(R[k].rolling_3m)
                      /\ i >= 2 => R[k].rolling_3m.num * 3 =
                                      (v[k - 2] + v[k - 1] + v[k]) * R[k].rolling_3m.den
                      /\ (R[k].rolling_6m.den # 0) = (i >= 5)
                      /\ i < 5 => isnaf(R[k].rolling_6m)
                      /\ i >= 5 => R[k].rolling_6m.num * 6 =
                                      (v[k - 5] + v[k - 4] + v[k - 3] + v[k - 2] + v[k - 1] + v[k])
                                          * R[k].rolling_6m.den

\* a corridor whose records are stored latest first, with counts that vary, and whose
\* sixth row carries both averages
C7_Witness ==
    /\ RollingFile.exists
    /\ \E c \in CorridorsOf(RollingFile.rows) :
          LET R == RowsOfCorridor(RollingFile.rows, c)
              S == RowsOfCorridor(df, c)
          IN  /\ Len(R) >= 6
              /\ MonthNumber(S[1].migration_month) > MonthNumber(S[2].migration_month)
              /\ R[6].rolling_3m.den # 0
              /\ R[6].rolling_6m.den # 0
              /\ ~EqF(R[6].rolling_3m, R[6].rolling_6m)
              /\ isnaf(R[2].rolling_3m) /\ isnaf(R[5].rolling_6m)

\* the sum over the positions I of weight[i] * num_migrants
RECURSIVE WeightedSum(_, _, _)
WeightedSum(frame, I, weight) ==
    IF I = {} THEN 0
    ELSE LET i == CHOOSE j \in I : TRUE
         IN  weight[i] * frame[i].num_migrants + WeightedSum(frame, I \ {i}, weight)

\* 286 times the least-squares slope of the corridor's 12 latest records against
\* 0..11: the sum of (2x - 11) * count, x being the record's place among the 12
TrendTimes286(c) ==
    LET I == { j \in 1..Len(df) : df[j].country_from = c[1] /\ df[j].country_to = c[2] }
        recent == { j \in I : Cardinality({ k \in I : MonthNumber(df[k].migration_month)
                                                        > MonthNumber(df[j].migration_month) }) < 12 }
        x == [j \in recent |-> Cardinality({ k \in recent :
                                    MonthNumber(df[k].migration_month)
                                        < MonthNumber(df[j].migration_month) })]
    IN  WeightedSum(df, recent, [j \in recent |-> 2 * x[j] - 11] @@ <<>>)

\* C8: after generate_rolling_averages, a corridor appears in the artifact only if it
\* has at least 6 records and fewer than 100 corridors have a larger all-time sum, and
\* it does appear if it has at least 6 records and fewer than 100 other corridors have
\* a sum at least as large; a corridor with 5 records never appears; every row of an
\* included corridor with 6..11 records has a null trend_slope, every row of one with
\* at least 12 records the least-squares slope of its 12 latest records.
C8_TopCorridorsWithHistory ==
    returned = "flows_rolling_averages_top100.json" =>
        LET corridors == CorridorsOf(df)
            total == [c \in corridors |-> GroupSum(RowsOfCorridor(df, c))] @@ <<>>
            records == [c \in corridors |-> Len(RowsOfCorridor(df, c))] @@ <<>>
            included == CorridorsOf(RollingFile.rows)
        IN  /\ included \subseteq corridors
            /\ \A c \in corridors :
                  LET larger == Cardinality({ d \in corridors : total[d] > total[c] })
                      rivals == Cardinality({ d \in corridors \ {c} : total[d] >= total[c] })
                  IN  /\ c \in included => (records[c] >= 6 /\ larger < 100)
                      /\ (records[c] >= 6 /\ rivals < 100) => c \in included
                      /\ records[c] = 5 => c \notin included
            /\ \A i \in 1..Len(RollingFile.rows) :
                  LET r == RollingFile.rows[i]
                      c == <<r.country_from, r.country_to>>
                  IN  /\ records[c] <= 11 => isnaf(r.trend_slope)
                      /\ records[c] >= 12 =>
                            /\ r.trend_slope.den # 0
                            /\ r.trend_slope.num * 286 = TrendTimes286(c) * r.trend_slope.den

\* a corridor of at least 12 records with a trend that is not flat, a corridor of 6
\* records left out because a hundred corridors come before it, and a corridor among
\* the hundred largest left out for having a single record
C8_Witness ==
    /\ returned = "flows_rolling_averages_top100.json"
    /\ \E i \in 1..Len(RollingFile.rows) :
          /\ Len(RowsOfCorridor(df, <<RollingFile.rows[i].country_from,
                                      RollingFile.rows[i].country_to>>)) >= 12
          /\ RollingFile.rows[i].trend_slope.num # 0
    /\ Len(RowsOfCorridor(df, <<"ZZ", "CC">>)) = 6
    /\ <<"ZZ", "CC">> \notin CorridorsOf(RollingFile.rows)
    /\ Len(RowsOfCorridor(df, <<"AA", "BB">>)) = 1
    /\ <<"AA", "BB">> \notin CorridorsOf(RollingFile.rows)
    /\ Cardinality(CorridorsOf(df)) > 100

-----------------------------------------------------------------------------
(* generate_region_to_country, generate_subregional_clustering *)

\* names.get(code, f"<Label>_{code}")
get_name(names, label, code) ==
    IF code \in DOMAIN names THEN names[code] ELSE label \o "_" \o code

\* the loop over df.groupby(['region_from', 'country_to', 'migration_month']): groupby
\* drops the records without an origin region
RegionToCountry(frame, names) ==
    LET keys == { <<r.region_from, r.country_to, r.migration_month>> : r \in
                    { x \in Range(frame) : ~isna(x.region_from) /\ ~isna(x.country_to) } }
        order == SortSet(keys, [k \in keys |->
                    <<StrRank(k[1]), StrRank(k[2]), to_datetime(k[3])>>])
    IN  [i \in 1..Len(order) |->
            [ region_from     |-> get_name(names, "Region", order[i][1]),
              country_to      |-> order[i][2],
              migration_month |-> order[i][3],
              num_migrants    |-> GroupSum(SelectSeq(frame, LAMBDA r :
                                    <<r.region_from, r.country_to, r.migration_month>>
                                        = order[i])) ]]

generate_region_to_country ==
    /\ files' = to_json(files, "flows_region_to_country_monthly.json",
                        RegionToCountry(df, region_names))
    /\ returned' = "flows_region_to_country_monthly.json"
    /\ UNCHANGED <<hierarchy, df>>

\* the loop over df.groupby(['subregion_from', 'subregion_to', 'migration_month'])
SubregionToSubregion(frame, names) ==
    LET keys == { <<r.subregion_from, r.subregion_to, r.migration_month>> : r \in
                    { x \in Range(frame) : ~isna(x.subregion_from) /\ ~isna(x.subregion_to) } }
        order == SortSet(keys, [k \in keys |->
                    <<StrRank(k[1]), StrRank(k[2]), to_datetime(k[3])>>])
    IN  [i \in 1..Len(order) |->
            [ subregion_from  |-> get_name(names, "Subregion", order[i][1]),
              subregion_to    |-> get_name(names, "Subregion", order[i][2]),
              migration_month |-> order[i][3],
              num_migrants    |-> GroupSum(SelectSeq(frame, LAMBDA r :
                                    <<r.subregion_from, r.subregion_to, r.migration_month>>
                                        = order[i])) ]]

\* the loop over df.groupby(['intermediate_from', 'intermediate_to', 'migration_month'])
IntermediateToIntermediate(frame, names) ==
    LET keys == { <<r.intermediate_from, r.intermediate_to, r.migration_month>> : r \in
                    { x \in Range(frame) : ~isna(x.intermediate_from) /\ ~isna(x.intermediate_to) } }
        order == SortSet(keys, [k \in keys |->
                    <<StrRank(k[1]), StrRank(k[2]), to_datetime(k[3])>>])
    IN  [i \in 1..Len(order) |->
            [ intermediate_from |-> get_name(names, "Intermediate", order[i][1]),
              intermediate_to   |-> get_name(names, "Intermediate", order[i][2]),
              migration_month   |-> order[i][3],
              num_migrants      |-> GroupSum(SelectSeq(frame, LAMBDA r :
                                      <<r.intermediate_from, r.intermediate_to, r.migration_month>>
                                          = order[i])) ]]

\* the intermediate artifact is written only if some intermediate name was recorded
generate_subregional_clustering ==
    /\ files' =
          LET fs == to_json(files, "flows_subregion_to_subregion_monthly.json",
                            SubregionToSubregion(df, subregion_names))
          IN  IF DOMAIN intermediate_names # {}
              THEN to_json(fs, "flows_intermediate_to_intermediate_monthly.json",
                           IntermediateToIntermediate(df, intermediate_names))
              ELSE fs
    /\ returned' = "flows_subregion_to_subregion_monthly.json"
    /\ UNCHANGED <<hierarchy, df>>

-----------------------------------------------------------------------------
(* The hierarchy specification: classification tables with missing cells, repeated   *)
(* codes and repeated countries, over the two flows of the worked example            *)

MaxM49Rows == 2

\* (code, name) cells of a classification row, per kind
RegionCells == { <<"2", "Region2">>, <<"2", NaN>>, <<"9", "Region9">>, <<NaN, NaN>> }
SubregionCells == { <<"21", "Sub21">>, <<"21", NaN>>, <<NaN, NaN>> }
IntermediateCells == { <<"5", "Inter5">>, <<"5", NaN>>, <<NaN, NaN>> }

M49Tables ==
    LET Row == { [ iso2 |-> c, region_code |-> r[1], region_name |-> r[2],
                   subregion_code |-> s[1], subregion_name |-> s[2],
                   intermediate_code |-> t[1], intermediate_name |-> t[2] ] :
                 c \in {"CC", "XX", NaN}, r \in RegionCells, s \in SubregionCells,
                 t \in IntermediateCells }
    IN  UNION { [1..len -> Row] : len \in 1..MaxM49Rows }

InitHierarchy == \E table \in M49Tables : Setup(table, ExampleFlows)

NextHierarchy == generate_region_to_country \/ generate_subregional_clustering

SpecHierarchy == InitHierarchy /\ [][NextHierarchy]_vars

RegionFile == files["flows_region_to_country_monthly.json"]
SubregionFile == files["flows_subregion_to_subregion_monthly.json"]
IntermediateFile == files["flows_intermediate_to_intermediate_monthly.json"]

\* the names the classification table gives for a code in the rows that have a country
RecordedRegionNames(code) ==
    { m49[i].region_name : i \in { j \in 1..Len(m49) :
        ~isna(m49[j].iso2) /\ m49[j].region_code = code /\ ~isna(m49[j].region_name) } }
RecordedSubregionNames(code) ==
    { m49[i].subregion_name : i \in { j \in 1..Len(m49) :
        ~isna(m49[j].iso2) /\ m49[j].subregion_code = code /\ ~isna(m49[j].subregion_name) } }
RecordedIntermediateNames(code) ==
    { m49[i].intermediate_name : i \in { j \in 1..Len(m49) :
        ~isna(m49[j].iso2) /\ m49[j].intermediate_code = code
        /\ ~isna(m49[j].intermediate_name) } }

\* a name that is present: a recorded name of the code, or the fallback label when the
\* table records none
NameOrFallback(name, recorded, label, code) ==
    /\ ~isna(name)
    /\ name # ""
    /\ IF recorded = {} THEN name = label \o "_" \o code ELSE name \in recorded

\* C10 as stated: for every classification row with a country code, the lookup of the
\* name of its region, sub-region or intermediate-region code (when the row has the
\* code) returns a recorded name of the code, or the fallback label when none was
\* recorded, never an empty or missing value; so no artifact row has a missing name.
C10_NameNeverMissing ==
    /\ \A i \in 1..Len(m49) :
          ~isna(m49[i].iso2) =>
              /\ ~isna(m49[i].region_code) =>
                    NameOrFallback(get_name(region_names, "Region", m49[i].region_code),
                                   RecordedRegionNames(m49[i].region_code),
                                   "Region", m49[i].region_code)
              /\ ~isna(m49[i].subregion_code) =>
                    NameOrFallback(get_name(subregion_names, "Subregion", m49[i].subregion_code),
                                   RecordedSubregionNames(m49[i].subregion_code),
                                   "Subregion", m49[i].subregion_code)
              /\ ~isna(m49[i].intermediate_code) =>
                    NameOrFallback(get_name(intermediate_names, "Intermediate",
                                            m49[i].intermediate_code),
                                   RecordedIntermediateNames(m49[i].intermediate_code),
                                   "Intermediate", m49[i].intermediate_code)
    /\ \A i \in 1..Len(RegionFile.rows) : ~isna(RegionFile.rows[i].region_from)
    /\ \A i \in 1..Len(SubregionFile.rows) :
          ~isna(SubregionFile.rows[i].subregion_from) /\ ~isna(SubregionFile.rows[i].subregion_to)
    /\ \A i \in 1..Len(IntermediateFile.rows) :
          /\ ~isna(IntermediateFile.rows[i].intermediate_from)
          /\ ~isna(IntermediateFile.rows[i].intermediate_to)

\* What the code returns: the name cell of the last row (with a country) that carries
\* the code, missing or not; the fallback label is never returned for a code of the table.
LookupReturnsLastNameCell ==
    \A i \in 1..Len(m49) :
        (~isna(m49[i].iso2) /\ ~isna(m49[i].region_code)) =>
            LET rows == { j \in 1..Len(m49) : /\ ~isna(m49[j].iso2)
                                              /\ m49[j].region_code = m49[i].region_code }
                last == CHOOSE j \in rows : \A k \in rows : k <= j
            IN  get_name(region_names, "Region", m49[i].region_code) = m49[last].region_name

-----------------------------------------------------------------------------
(* generate_country_to_region, generate_region_to_region *)

\* the loop over df.groupby(['country_from', 'region_to', 'migration_month'])
CountryToRegion(frame, names) ==
    LET keys == { <<r.country_from, r.region_to, r.migration_month>> : r \in
                    { x \in Range(frame) : ~isna(x.country_from) /\ ~isna(x.region_to) } }
        order == SortSet(keys, [k \in keys |->
                    <<StrRank(k[1]), StrRank(k[2]), to_datetime(k[3])>>])
    IN  [i \in 1..Len(order) |->
            [ country_from    |-> order[i][1],
              region_to       |-> get_name(names, "Region", order[i][2]),
              migration_month |-> order[i][3],
              num_migrants    |-> GroupSum(SelectSeq(frame, LAMBDA r :
                                    <<r.country_from, r.region_to, r.migration_month>>
                                        = order[i])) ]]

generate_country_to_region ==
    /\ files' = to_json(files, "flows_country_to_region_monthly.json",
                        CountryToRegion(df, region_names))
    /\ returned' = "flows_country_to_region_monthly.json"
    /\ UNCHANGED <<hierarchy, df>>

\* the loop over df.groupby(['region_from', 'region_to', 'migration_month'])
RegionToRegion(frame, names) ==
    LET keys == { <<r.region_from, r.region_to, r.migration_month>> : r \in
                    { x \in Range(frame) : ~isna(x.region_from) /\ ~isna(x.region_to) } }
        order == SortSet(keys, [k \in keys |->
                    <<StrRank(k[1]), StrRank(k[2]), to_datetime(k[3])>>])
    IN  [i \in 1..Len(order) |->
            [ region_from     |-> get_name(names, "Region", order[i][1]),
              region_to       |-> get_name(names, "Region", order[i][2]),
              migration_month |-> order[i][3],
              num_migrants    |-> GroupSum(SelectSeq(frame, LAMBDA r :
                                    <<r.region_from, r.region_to, r.migration_month>>
                                        = order[i])) ]]

generate_region_to_region ==
    /\ files' = to_json(files, "flows_region_to_region_monthly.json",
                        RegionToRegion(df, region_names))
    /\ returned' = "flows_region_to_region_monthly.json"
    /\ UNCHANGED <<hierarchy, df>>

-----------------------------------------------------------------------------
(* generate_quarterly_averages, generate_annual_totals, generate_gross_flows *)

\* year.astype(str) + '-Q' + quarter.astype(str)
quarter_year(year, quarter) == ToString(year) \o "-Q" \o ToString(quarter)

\* df.groupby(['country_from', 'country_to', 'year', 'quarter'])['num_migrants'].mean()
QuarterlyAverages(frame) ==
    LET keys == { <<r.country_from, r.country_to, r.year, r.quarter>> : r \in
                    { x \in Range(frame) : ~isna(x.country_from) /\ ~isna(x.country_to) } }
        order == SortSet(keys, [k \in keys |->
                    <<StrRank(k[1]), StrRank(k[2]), k[3], k[4]>>])
    IN  [i \in 1..Len(order) |->
            [ country_from |-> order[i][1],
              country_to   |-> order[i][2],
              quarter_year |-> quarter_year(order[i][3], order[i][4]),
              num_migrants |-> GroupMean(SelectSeq(frame, LAMBDA r :
                                  <<r.country_from, r.country_to, r.year, r.quarter>>
                                      = order[i])) ]]

generate_quarterly_averages ==
    /\ files' = to_json(files, "flows_country_to_country_quarterly.json",
                        QuarterlyAverages(df))
    /\ returned' = "flows_country_to_country_quarterly.json"
    /\ UNCHANGED <<hierarchy, df>>

\* df.dropna(subset=['region_from', 'region_to']).groupby(['region_from', 'region_to',
\* 'year'])['num_migrants'].sum(), the two code columns then mapped to names
AnnualRegionTotals(frame, names) ==
    LET keys == { <<r.region_from, r.region_to, r.year>> : r \in
                    { x \in Range(frame) : ~isna(x.region_from) /\ ~isna(x.region_to) } }
        order == SortSet(keys, [k \in keys |-> <<StrRank(k[1]), StrRank(k[2]), k[3]>>])
    IN  [i \in 1..Len(order) |->
            [ region_from  |-> get_name(names, "Region", order[i][1]),
              region_to    |-> get_name(names, "Region", order[i][2]),
              year         |-> order[i][3],
              num_migrants |-> GroupSum(SelectSeq(frame, LAMBDA r :
                                  <<r.region_from, r.region_to, r.year>> = order[i])) ]]

generate_annual_totals ==
    /\ files' = to_json(to_json(files, "flows_country_to_country_annual.json", AnnualSums(df)),
                        "flows_region_to_region_annual.json",
                        AnnualRegionTotals(df, region_names))
    /\ returned' = "flows_country_to_country_annual.json"
    /\ UNCHANGED <<hierarchy, df>>

\* the annual sums with num_migrants renamed to gross_flow
GrossFlows(frame) ==
    LET annual == AnnualSums(frame)
    IN  [i \in 1..Len(annual) |->
            [ country_from |-> annual[i].country_from,
              country_to   |-> annual[i].country_to,
              year         |-> annual[i].year,
              gross_flow   |-> annual[i].num_migrants ]]

generate_gross_flows ==
    /\ files' = to_json(files, "flows_gross_annual_country.json", GrossFlows(df))
    /\ returned' = "flows_gross_annual_country.json"
    /\ UNCHANGED <<hierarchy, df>>

-----------------------------------------------------------------------------
(* generate_all_variations *)

None == "None"
FileNotFoundError == "FileNotFoundError"

\* generated_files: the paths the thirteen calls return, in the order of the calls
generated_files ==
    << "flows_country_to_country_monthly.json",
       "flows_region_to_country_monthly.json",
       "flows_country_to_region_monthly.json",
       "flows_region_to_region_monthly.json",
       "flows_subregion_to_subregion_monthly.json",
       "flows_country_to_country_quarterly.json",
       "flows_country_to_country_annual.json",
       "flows_seasonal_patterns_country.json",
       "flows_rolling_averages_top100.json",
       "flows_gross_annual_country.json",
       "flows_net_annual_country.json",
       "flows_corridor_rankings_annual.json",
       "flows_growth_rates_annual.json" >>

\* output_dir after the thirteen calls, each writing what its own action writes
AllVariations(fs, frame, rnames, snames, inames) ==
    LET f1  == to_json(fs, "flows_country_to_country_monthly.json", CountryToCountry(frame))
        f2  == to_json(f1, "flows_region_to_country_monthly.json",
                       RegionToCountry(frame, rnames))
        f3  == to_json(f2, "flows_country_to_region_monthly.json",
                       CountryToRegion(frame, rnames))
        f4  == to_json(f3, "flows_region_to_region_monthly.json",
                       RegionToRegion(frame, rnames))
        f5a == to_json(f4, "flows_subregion_to_subregion_monthly.json",
                       SubregionToSubregion(frame, snames))
        f5  == IF DOMAIN inames # {}
               THEN to_json(f5a, "flows_intermediate_to_intermediate_monthly.json",
                            IntermediateToIntermediate(frame, inames))
               ELSE f5a
        f6  == to_json(f5, "flows_country_to_country_quarterly.json",
                       QuarterlyAverages(frame))
        f7  == to_json(to_json(f6, "flows_country_to_country_annual.json", AnnualSums(frame)),
                       "flows_region_to_region_annual.json",
                       AnnualRegionTotals(frame, rnames))
        f8  == to_json(f7, "flows_seasonal_patterns_country.json", SeasonalPatterns(frame))
        f9  == IF RollingAverages(frame) # <<>>
               THEN to_json(f8, "flows_rolling_averages_top100.json", RollingAverages(frame))
               ELSE f8
        f10 == to_json(f9, "flows_gross_annual_country.json", GrossFlows(frame))
        f11 == to_json(f10, "flows_net_annual_country.json", NetFlows(frame))
        f12 == to_json(f11, "flows_corridor_rankings_annual.json", CorridorRankings(frame))
    IN  to_json(f12, "flows_growth_rates_annual.json", GrowthRates(frame))

\* the summary loop: file_path.stat() raises FileNotFoundError for a path that names no
\* file, and the exception leaves generate_all_variations
Summary(fs, paths) ==
    IF \A i \in 1..Len(paths) : fs[paths[i]].exists THEN None ELSE FileNotFoundError

generate_all_variations ==
    /\ files' = AllVariations(files, df, region_names, subregion_names, intermediate_names)
    /\ returned' = Summary(files', generated_files)
    /\ UNCHANGED <<hierarchy, df>>

-----------------------------------------------------------------------------
(* The full-run specification: one or two corridors observed over a varying number   *)
(* of months, in a new output_dir or in one that holds the rolling-average artifact  *)
(* of an earlier run                                                                 *)

MaxRunObservations == 7

\* the rolling-average artifact an earlier run left, over an earlier store
StaleRows ==
    RollingAverages(load_migration_data(
        ObservedRows(<<"XX", "CC">>, MinObservations, 10, 0, FALSE),
        load_regional_mappings(M49Example)))

OutputDirs ==
    { [f \in FileNames |-> NoFile],
      to_json([f \in FileNames |-> NoFile], "flows_rolling_averages_top100.json", StaleRows) }

InitRun ==
    \E n \in 1..MaxRunObservations, n2 \in {0, 2}, base \in {5, 10}, step \in {0, 1},
       reversed \in BOOLEAN, dir \in OutputDirs :
        SetupIn(M49Example,
                ObservedRows(<<"CC", "XX">>, n, base, step, reversed)
                  \o ObservedRows(<<"XX", "CC">>, n2, 10, 0, FALSE),
                dir)

NextRun == generate_all_variations \/ generate_rolling_averages

SpecRun == InitRun /\ [][NextRun]_vars

\* no corridor of the store has the six records the rolling averages ask for
NoCorridorQualifies ==
    \A c \in CorridorsOf(df) : Len(RowsOfCorridor(df, c)) < MinObservations

\* C11 as stated: when no corridor reaches the minimum of 6 records, the rolling-average
\* operation produces an empty artifact, and the full run (all operations, then the
\* summary) completes without raising.
C11_EmptyResultNotFailure ==
    NoCorridorQualifies =>
        /\ returned = "flows_rolling_averages_top100.json" =>
              RollingFile.exists /\ RollingFile.rows = <<>>
        /\ returned \in {None, FileNotFoundError} =>
              returned = None /\ RollingFile.exists /\ RollingFile.rows = <<>>

\* What the code does: the rolling-average operation writes nothing when no corridor
\* qualifies, and the full run raises FileNotFoundError exactly when output_dir then
\* holds no rolling-average artifact; an artifact found there is the earlier run's.
FullRunRaisesWithoutRollingArtifact ==
    /\ returned \in {None, FileNotFoundError} =>
          (returned = FileNotFoundError) = ~RollingFile.exists
    /\ (NoCorridorQualifies /\ RollingFile.exists) => RollingFile.rows = StaleRows
    /\ (~NoCorridorQualifies /\ returned \in {None, FileNotFoundError}) =>
          returned = None /\ RollingFile.rows = RollingAverages(df)

-----------------------------------------------------------------------------
(* The processor specification: after __init__, the aggregator operations in any     *)
(* order, any number of times                                                        *)

MaxStoreObservations == 6
MaxArtifacts == 3

\* the classification tables: the worked example, and one that knows XX as well
M49Both ==
    M49Example \o
    << [ iso2 |-> "XX", region_code |-> "9", region_name |-> NaN,
         subregion_code |-> NaN, subregion_name |-> NaN,
         intermediate_code |-> "5", intermediate_name |-> "Inter5" ] >>

Init ==
    \E table \in {M49Example, M49Both}, n \in 1..MaxStoreObservations, n2 \in {0, 2},
       step \in {0, 1}, reversed \in BOOLEAN :
        Setup(table,
              ObservedRows(<<"CC", "XX">>, n, 10, step, reversed)
                \o ObservedRows(<<"XX", "CC">>, n2, 40, 0, FALSE))

\* the artifacts output_dir holds
Written(fs) == Cardinality({ f \in FileNames : fs[f].exists })

\* a call of a method; the runs are followed until output_dir holds MaxArtifacts artifacts
Call(method) == Written(files) < MaxArtifacts /\ method

Next ==
    \/ Call(generate_country_to_country)
    \/ Call(generate_region_to_country)
    \/ Call(generate_country_to_region)
    \/ Call(generate_region_to_region)
    \/ Call(generate_subregional_clustering)
    \/ Call(generate_quarterly_averages)
    \/ Call(generate_annual_totals)
    \/ Call(generate_seasonal_patterns)
    \/ Call(generate_rolling_averages)
    \/ Call(generate_gross_flows)
    \/ Call(generate_net_flows)
    \/ Call(generate_corridor_rankings)
    \/ Call(generate_growth_rates)
    \/ Call(generate_all_variations)

Spec == Init /\ [][Next]_vars

\* the columns load_migration_data gives the store
StoreColumns ==
    { "country_from", "country_to", "migration_month", "num_migrants", "date", "year",
      "month", "quarter", "region_from", "region_to", "subregion_from", "subregion_to",
      "intermediate_from", "intermediate_to", "season" }

\* C12: every call of an aggregator operation (and of the full run), in any order and
\* any number of times, leaves the record store and the hierarchy index as they were:
\* no record is added, removed, reordered or modified, and the store gets no column.
C12_StoreAndIndexUnchanged ==
    [][ /\ df' = df
        /\ \A i \in 1..Len(df') : DOMAIN df'[i] = StoreColumns
        /\ hierarchy' = hierarchy ]_vars

\* C12 witness: the rolling averages and the rankings were computed and written with
\* their derived columns, over a store that was not in date order.
C12_Witness ==
    /\ RollingFile.exists
    /\ \E i \in 1..Len(RollingFile.rows) : ~isnaf(RollingFile.rows[i].rolling_6m)
    /\ RankFile.exists
    /\ RankFile.rows # <<>>
    /\ \E i \in 1..(Len(df) - 1) : df[i].date > df[i + 1].date
    /\ \A i \in 1..Len(df) : DOMAIN df[i] = StoreColumns

-----------------------------------------------------------------------------
(* The region roll-up specification: classification tables whose rows give a region  *)
(* with or without a name, over stores of a few records                              *)

MaxRegionRecords == 2

RegionTables ==
    LET Row == { [ iso2 |-> c, region_code |-> r[1], region_name |-> r[2],
                   subregion_code |-> "21", subregion_name |-> "Sub21",
                   intermediate_code |-> NaN, intermediate_name |-> NaN ] :
                 c \in {"CC", "XX"}, r \in RegionCells }
    IN  UNION { [1..len -> Row] : len \in 1..MaxM49Rows }

InitRegion ==
    \E table \in RegionTables,
       rawRows \in RawTables({<<"CC", "XX">>, <<"XX", "CC">>, <<"CC", "YY">>},
                             {<<2020, 1>>, <<2020, 2>>}, {40, 100}, MaxRegionRecords) :
        Setup(table, rawRows)

NextRegion == generate_region_to_country \/ generate_country_to_region

SpecRegion == InitRegion /\ [][NextRegion]_vars

\* the (origin-region code, destination, month) groups of the records that have an
\* origin-region code
RegionGroups ==
    { <<df[i].region_from, df[i].country_to, df[i].migration_month>> :
        i \in { j \in 1..Len(df) : ~isna(df[j].region_from) } }

RegionGroupSum(g) ==
    SumSeq(Counts(SelectSeq(df, LAMBDA r :
        <<r.region_from, r.country_to, r.migration_month>> = g)))

\* the artifact holds the rows row(g) of the groups g, one for each group
OneRowPerRegionGroup(row(_)) ==
    /\ Len(RegionFile.rows) = Cardinality(RegionGroups)
    /\ \A g \in RegionGroups :
          Cardinality({ i \in 1..Len(RegionFile.rows) : RegionFile.rows[i] = row(g) })
              = Cardinality({ h \in RegionGroups : row(h) = row(g) })

\* the store and the table of the worked example
IsRegionExample ==
    /\ Len(m49) = 1
    /\ m49[1].iso2 = "CC" /\ m49[1].region_code = "2" /\ m49[1].region_name = "Region2"
    /\ CountryToCountry(df) = ExampleFlows

\* C13 as stated: regionToCountry emits exactly one row for each (origin-region code,
\* destination, month) group of the records that have an origin-region code, with the
\* sum of the group's counts and with region_from the name recorded for the code, or
\* the fallback label when the table gives the code no name; records without an
\* origin-region code are in no row; on the worked example the output is the single
\* row (Region2, XX, 2020-01, 100).
C13_RegionToCountryRows ==
    RegionFile.exists =>
        /\ OneRowPerRegionGroup(LAMBDA g :
              [ region_from     |-> IF RecordedRegionNames(g[1]) = {}
                                    THEN "Region_" \o g[1]
                                    ELSE CHOOSE name \in RecordedRegionNames(g[1]) : TRUE,
                country_to      |-> g[2],
                migration_month |-> g[3],
                num_migrants    |-> RegionGroupSum(g) ])
        /\ IsRegionExample =>
              RegionFile.rows = << [ region_from |-> "Region2", country_to |-> "XX",
                                     migration_month |-> <<2020, 1>>,
                                     num_migrants |-> 100 ] >>

\* What the code emits: the same rows, region_from being the name cell of the last
\* classification row that carries the code, missing when that cell is empty.
RegionToCountryRowsAsCoded ==
    RegionFile.exists =>
        /\ OneRowPerRegionGroup(LAMBDA g :
              LET rows == { j \in 1..Len(m49) : m49[j].region_code = g[1] }
                  last == CHOOSE j \in rows : \A k \in rows : k <= j
              IN  [ region_from     |-> m49[last].region_name,
                    country_to      |-> g[2],
                    migration_month |-> g[3],
                    num_migrants    |-> RegionGroupSum(g) ])
        /\ IsRegionExample =>
              RegionFile.rows = << [ region_from |-> "Region2", country_to |-> "XX",
                                     migration_month |-> <<2020, 1>>,
                                     num_migrants |-> 100 ] >>

\* the worked example, after regionToCountry ran on it
RegionExampleRun == RegionFile.exists /\ IsRegionExample

=============================================================================
